---- MODULE Spec2Model ----
(***************************************************************************)
(* Model of src-tauri/src/commands.rs: the audio-extension classifier      *)
(* is_audio_file, the folder scanner scan_music_folder (a WalkDir walk     *)
(* with follow_links(true) whose errors are dropped by filter_map) and the *)
(* existence check file_exists.                                            *)
(*                                                                         *)
(* Text is modelled as a sequence of one-character strings.  A file name   *)
(* (an OsStr) is such a sequence too and may hold BAD, a byte that is not  *)
(* valid UTF-8.  A path is a sequence of components (names); an absolute   *)
(* path starts with the component RootDir.                                 *)
(***************************************************************************)
EXTENDS Integers, Sequences, FiniteSets, TLC

VARIABLES
    fs,            \* the file system: slot (physical path) -> node
    folder_path,   \* scan_music_folder's argument
    pc,            \* "idle", "walk" (inside the for loop) or "done"
    start,         \* walkdir IntoIter.start: the root entry is still to be yielded
    stack,         \* walkdir IntoIter.stack_list zipped with stack_path
    music_files,   \* the Vec the loop body pushes to
    visited,       \* the paths of the entries the loop body has been given
    result,        \* what scan_music_folder returned
    prev,          \* the previous call's outcome
    calls,         \* number of scan_music_folder calls started
    cpath,         \* is_audio_file's argument
    cret,          \* is_audio_file's return value
    fsop,          \* the last create/remove applied to the file system
    exists_ret     \* file_exists's argument and return value

vars == <<fs, folder_path, pc, start, stack, music_files, visited, result,
          prev, calls, cpath, cret, fsop, exists_ret>>

(***************************************************************************)
(* Bounds                                                                  *)
(***************************************************************************)
\* symlinks followed while resolving one path before the OS answers ELOOP
MaxSymlinkHops == 3
\* number of successive scan_music_folder calls on the same tree
MaxScans == 2
\* depth of the walk's directory stack the model follows
MaxDepth == 8
\* length of the arbitrary names the classifier is tried on
MaxNameLen == 3

(***************************************************************************)
(* Option<T>                                                               *)
(***************************************************************************)
None == [some |-> FALSE, val |-> <<>>]
Some(x) == [some |-> TRUE, val |-> x]

(***************************************************************************)
(* Characters and text                                                     *)
(***************************************************************************)
\* a byte that is not valid UTF-8 (to_str fails on a name holding it)
BAD == "\\xFF"
\* U+FFFD, what to_string_lossy puts in its place
REPLACEMENT == "\\uFFFD"

UPPER == <<"A","B","C","D","E","F","G","H","I","J","K","L","M",
           "N","O","P","Q","R","S","T","U","V","W","X","Y","Z">>
LOWER == <<"a","b","c","d","e","f","g","h","i","j","k","l","m",
           "n","o","p","q","r","s","t","u","v","w","x","y","z">>

\* char::to_lowercase on the characters of the model
to_lowercase_char(c) ==
    IF \E i \in 1..Len(UPPER) : UPPER[i] = c
    THEN LOWER[CHOOSE i \in 1..Len(UPPER) : UPPER[i] = c]
    ELSE c

\* str::to_lowercase
to_lowercase(s) == [i \in 1..Len(s) |-> to_lowercase_char(s[i])]

\* OsStr::to_str: Some(text) when the bytes are valid UTF-8
to_str(os) ==
    IF \E i \in 1..Len(os) : os[i] = BAD THEN None ELSE Some(os)

\* OsStr::to_string_lossy
to_string_lossy(os) ==
    [i \in 1..Len(os) |-> IF os[i] = BAD THEN REPLACEMENT ELSE os[i]]

(***************************************************************************)
(* Paths                                                                   *)
(***************************************************************************)
RootDir == <<"/">>

\* Path::file_name: the last component when it is a normal one
file_name(path) ==
    IF path = <<>> \/ path[Len(path)] = RootDir \/ path[Len(path)] = <<".", ".">>
    THEN None
    ELSE Some(path[Len(path)])

\* Path::parent
parent(path) ==
    IF path = <<>> \/ path = <<RootDir>> THEN None
    ELSE Some(SubSeq(path, 1, Len(path) - 1))

\* index of the last '.' of a name, 0 when there is none
LastDot(name) ==
    IF \E i \in 1..Len(name) : name[i] = "."
    THEN CHOOSE i \in 1..Len(name) :
            /\ name[i] = "."
            /\ \A j \in (i+1)..Len(name) : name[j] # "."
    ELSE 0

\* Path::extension (std's rsplit_file_at_dot): the part after the last dot of
\* the file name; none without a dot or when the only dot is the first byte
extension(path) ==
    LET fname == file_name(path) IN
    IF ~fname.some THEN None
    ELSE LET name == fname.val
             d == LastDot(name)
         IN IF d = 0 \/ d = 1 THEN None
            ELSE Some(SubSeq(name, d + 1, Len(name)))

\* Path::strip_prefix, component by component
strip_prefix(path, base) ==
    IF Len(base) <= Len(path) /\ SubSeq(path, 1, Len(base)) = base
    THEN Some(SubSeq(path, Len(base) + 1, Len(path)))
    ELSE None

\* Path::to_str on a whole path: every component must be text
path_to_str(path) ==
    IF \E i \in 1..Len(path) : ~to_str(path[i]).some THEN None ELSE Some(path)

\* Path::to_string_lossy on a whole path
path_to_string_lossy(path) == [i \in 1..Len(path) |-> to_string_lossy(path[i])]

(***************************************************************************)
(* The Extension Classifier                                                *)
(***************************************************************************)
AUDIO_EXTENSIONS ==
    { <<"m","p","3">>, <<"w","a","v">>, <<"o","g","g">>, <<"f","l","a","c">>,
      <<"a","a","c">>, <<"m","4","a">>, <<"w","m","a">>, <<"a","i","f","f">>,
      <<"a","p","e">>, <<"o","p","u","s">>, <<"w","e","b","m">> }

\* variant: the extension is compared as written, not lowercased
is_audio_file_nocase(path) ==
    \E ext \in {extension(path)} :
        /\ ext.some
        /\ \E t \in {to_str(ext.val)} :
              /\ t.some
              /\ t.val \in AUDIO_EXTENSIONS

\* lines 21-26: extension().and_then(to_str).map(lowercased is in the list)
\* .unwrap_or(false)
is_audio_file(path) ==
    \E ext \in {extension(path)} :
        /\ ext.some
        /\ \E t \in {to_str(ext.val)} :
              /\ t.some
              /\ to_lowercase(t.val) \in AUDIO_EXTENSIONS

(***************************************************************************)
(* The file system                                                         *)
(*                                                                         *)
(* A slot is a physical location, named by its path from the physical      *)
(* root <<>>, which is also the working directory.  The tree scanned is    *)
(*     /m              the music folder                                    *)
(*     /m/s.mp3          a file                                            *)
(*     /m/m              a directory named like its parent                 *)
(*     /m/m/n.txt          a text file                                     *)
(*     /m/m/<BAD>.mp3      a file whose name is not text                   *)
(*     /m/m/a.mp3          a directory named like an audio file            *)
(*     /m/m/a.mp3/T.OGG      a file with an upper-case extension           *)
(*     /m/l              a symbolic link                                   *)
(*     /o              a directory outside the music folder                *)
(*     /o/q.ogg          a file                                            *)
(*     /o/k.mp3          a symbolic link to /m/m/n.txt                     *)
(*     /o/<BAD>          a directory whose name is not text                *)
(*     /o/<BAD>/r.wav      a file                                          *)
(*     /o/b              a symbolic link                                   *)
(*     /e              an empty directory                                  *)
(***************************************************************************)
N_m == <<"m">>
N_o == <<"o">>
N_e == <<"e">>
N_l == <<"l">>
N_b == <<"b">>
N_z == <<"z">>
N_song == <<"s", ".", "m", "p", "3">>
N_notes == <<"n", ".", "t", "x", "t">>
N_badfile == <<BAD, ".", "m", "p", "3">>
N_album == <<"a", ".", "m", "p", "3">>
N_track == <<"T", ".", "O", "G", "G">>
N_q == <<"q", ".", "o", "g", "g">>
N_k == <<"k", ".", "m", "p", "3">>
N_baddir == <<BAD>>
N_r == <<"r", ".", "w", "a", "v">>

\* the order in which a forward listing yields names
NAMES == <<N_song, N_m, N_l, N_notes, N_badfile, N_album, N_track,
           N_q, N_k, N_baddir, N_r, N_b, N_o, N_e, N_z>>

P_m == <<N_m>>
P_s == <<N_m, N_song>>
P_mm == <<N_m, N_m>>
P_n == <<N_m, N_m, N_notes>>
P_X == <<N_m, N_m, N_badfile>>
P_a == <<N_m, N_m, N_album>>
P_T == <<N_m, N_m, N_album, N_track>>
P_l == <<N_m, N_l>>
P_o == <<N_o>>
P_q == <<N_o, N_q>>
P_k == <<N_o, N_k>>
P_B == <<N_o, N_baddir>>
P_r == <<N_o, N_baddir, N_r>>
P_b == <<N_o, N_b>>
P_e == <<N_e>>
P_z == <<N_z>>

Slots == {P_m, P_s, P_mm, P_n, P_X, P_a, P_T, P_l, P_o, P_q, P_k, P_B, P_r, P_b, P_e}

\* the absolute path text of a physical location
Abs(p) == <<RootDir>> \o p

NoNode == [kind |-> "none", readable |-> FALSE, target |-> <<>>]
FileNode == [kind |-> "file", readable |-> TRUE, target |-> <<>>]
DirNode(r) == [kind |-> "dir", readable |-> r, target |-> <<>>]
LinkNode(t) == [kind |-> "link", readable |-> TRUE, target |-> t]

\* what /m/l may point at: the root itself, a subdirectory, a directory or a
\* file outside, another link, nothing, itself
LinkTargets == {Abs(P_m), Abs(P_mm), Abs(P_o), Abs(P_q), Abs(P_b), Abs(P_z), Abs(P_l)}
BackTargets == {Abs(P_m), Abs(P_o)}

MkFs(x, mm, l, b) ==
    [s \in Slots |->
        CASE s = P_m -> DirNode(TRUE)
          [] s = P_s -> FileNode
          [] s = P_mm -> mm
          [] s = P_n -> IF mm.kind = "dir" THEN FileNode ELSE NoNode
          [] s = P_X -> IF mm.kind = "dir" THEN x ELSE NoNode
          [] s = P_a -> IF mm.kind = "dir" THEN DirNode(TRUE) ELSE NoNode
          [] s = P_T -> IF mm.kind = "dir" THEN FileNode ELSE NoNode
          [] s = P_l -> l
          [] s = P_o -> DirNode(TRUE)
          [] s = P_q -> FileNode
          [] s = P_k -> LinkNode(Abs(P_n))
          [] s = P_B -> DirNode(TRUE)
          [] s = P_r -> FileNode
          [] s = P_b -> b
          [] s = P_e -> DirNode(TRUE)]

FsConfigs ==
    { MkFs(x, mm, l, b) :
        x \in {NoNode, FileNode},
        mm \in {NoNode, DirNode(TRUE), DirNode(FALSE)},
        l \in {NoNode} \cup {LinkNode(t) : t \in LinkTargets},
        b \in {NoNode} \cup {LinkNode(t) : t \in BackTargets} }

\* the folder paths a caller supplies: relative, absolute, through a link,
\* a regular file, a missing path, a subdirectory, an empty directory
FolderPaths == {P_m, Abs(P_m), Abs(P_o), Abs(P_l), Abs(P_s), Abs(P_z), Abs(P_mm), Abs(P_e)}

\* the kind of the node at a physical location, links not followed
Kind(p) == IF p = <<>> THEN "dir" ELSE IF p \in Slots THEN fs[p].kind ELSE "none"

\* Path resolution as the OS does it: from directory cur, component by
\* component; a link's target replaces the link; ELOOP after too many links
RECURSIVE walk_path(_, _, _)
walk_path(cur, rest, hops) ==
    IF rest = <<>> THEN Some(cur)
    ELSE LET c == Head(rest)
             nxt == Append(cur, c)
         IN IF c = RootDir THEN walk_path(<<>>, Tail(rest), hops)
            ELSE IF Kind(cur) # "dir" THEN None
            ELSE IF Kind(nxt) = "none" THEN None
            ELSE IF Kind(nxt) = "link"
                 THEN IF hops = 0 THEN None
                      ELSE walk_path(cur, fs[nxt].target \o Tail(rest), hops - 1)
            ELSE walk_path(nxt, Tail(rest), hops)

\* fs::metadata: the node the path resolves to, links followed
metadata(path) == walk_path(<<>>, path, MaxSymlinkHops)

\* fs::symlink_metadata: the last component is not followed
symlink_metadata(path) ==
    IF path = <<>> \/ path = <<RootDir>> THEN Some(<<>>)
    ELSE LET dir == metadata(SubSeq(path, 1, Len(path) - 1))
             nxt == Append(dir.val, path[Len(path)])
         IN IF ~dir.some \/ Kind(dir.val) # "dir" \/ Kind(nxt) = "none" THEN None
            ELSE Some(nxt)

\* Path::exists, Path::is_dir, Path::is_file: all through fs::metadata
exists(path) == metadata(path).some
is_dir(path) == metadata(path).some /\ Kind(metadata(path).val) = "dir"
is_file(path) == metadata(path).some /\ Kind(metadata(path).val) = "file"

\* whether the process may open the directory at a physical location for reading
Readable(p) == p = <<>> \/ (p \in Slots /\ fs[p].readable)

\* the names in the directory at a physical location
Children(d) ==
    { s[Len(s)] : s \in { t \in Slots : /\ Len(t) = Len(d) + 1
                                       /\ SubSeq(t, 1, Len(d)) = d
                                       /\ fs[t].kind # "none" } }

\* a directory listing comes in an order the OS picks: NAMES order or its reverse
RECURSIVE Listing(_, _, _)
Listing(names, rev, i) ==
    IF i > Len(NAMES) THEN <<>>
    ELSE LET n == IF rev THEN NAMES[Len(NAMES) + 1 - i] ELSE NAMES[i]
         IN (IF n \in names THEN <<n>> ELSE <<>>) \o Listing(names, rev, i + 1)

(***************************************************************************)
(* scan_music_folder: results                                              *)
(***************************************************************************)
NoResult == [state |-> "none", files |-> <<>>, msg |-> "", path |-> <<>>]
Ok(files) == [state |-> "ok", files |-> files, msg |-> "", path |-> <<>>]
\* format!("<msg>{}", folder_path): the message text followed by the path
Err(msg, path) == [state |-> "err", files |-> <<>>, msg |-> msg, path |-> path]

Range(seq) == { seq[i] : i \in 1..Len(seq) }

\* a returned value with the order of its records forgotten
Summary(r) == [state |-> r.state, files |-> Range(r.files), msg |-> r.msg, path |-> r.path]

(***************************************************************************)
(* scan_music_folder: the two checks of the root                           *)
(***************************************************************************)
\* variant: the directory check made before the existence check
root_check_swapped(root_path) ==
    IF ~is_dir(root_path) THEN Err("Path is not a directory: ", root_path)
    ELSE IF ~exists(root_path) THEN Err("Folder does not exist: ", root_path)
    ELSE NoResult

root_check(root_path) ==
    IF ~exists(root_path) THEN Err("Folder does not exist: ", root_path)
    ELSE IF ~is_dir(root_path) THEN Err("Path is not a directory: ", root_path)
    ELSE NoResult

(***************************************************************************)
(* scan_music_folder: the loop body                                        *)
(***************************************************************************)
\* variant: without the final filter(|s| !s.is_empty())
derive_folder_unfiltered(file_path, root_path) ==
    LET p == parent(file_path) IN
    IF ~p.some THEN None
    ELSE LET rel == strip_prefix(p.val, root_path) IN
         IF ~rel.some THEN None
         ELSE path_to_str(rel.val)

\* lines 59-64: parent, strip_prefix, to_str, to_string, filter(!is_empty)
derive_folder(file_path, root_path) ==
    LET p == parent(file_path) IN
    IF ~p.some THEN None
    ELSE LET rel == strip_prefix(p.val, root_path) IN
         IF ~rel.some THEN None
         ELSE LET t == path_to_str(rel.val) IN
              IF ~t.some THEN None
              ELSE IF t.val = <<>> THEN None
              ELSE Some(t.val)

\* variant: the extension stored in lower case
derive_extension_lowercased(file_path) ==
    LET e == extension(file_path) IN
    IF e.some /\ to_str(e.val).some THEN to_lowercase(to_str(e.val).val) ELSE <<>>

\* lines 52-56: extension().and_then(to_str).unwrap_or("")
derive_extension(file_path) ==
    LET e == extension(file_path) IN
    IF e.some /\ to_str(e.val).some THEN to_str(e.val).val ELSE <<>>

\* variant: without the is_file() test
accepts_any_audio_name(file_path) == is_audio_file(file_path)

\* line 50: the condition under which an entry is a candidate
accepts(file_path) == is_file(file_path) /\ is_audio_file(file_path)

\* lines 48-73: the list after the loop body has run on one entry
loop_body(file_path, root_path, files) ==
    IF accepts(file_path)
    THEN LET n == file_name(file_path) IN
         IF n.some /\ to_str(n.val).some
         THEN Append(files, [path |-> path_to_string_lossy(file_path),
                             name |-> to_str(n.val).val,
                             extension |-> derive_extension(file_path),
                             folder |-> derive_folder(file_path, root_path)])
         ELSE files
    ELSE files

(***************************************************************************)
(* WalkDir::new(root).follow_links(true).into_iter()                       *)
(***************************************************************************)
\* a directory being listed: its path as visited, the directory it is
\* (walkdir's Ancestor), a pending read_dir error, the names still to yield
Frame(path, handle, rev) ==
    [path |-> path, handle |-> handle,
     err |-> ~Readable(handle),
     todo |-> IF Readable(handle) THEN Listing(Children(handle), rev, 1) ELSE <<>>]

\* variant: no comparison with the directories on the stack
check_loop_never(stk, child) == Readable(child)

\* variant: a directory is also refused when any entry visited so far is it
check_loop_seen(stk, child) ==
    /\ Readable(child)
    /\ ~\E i \in 1..Len(stk) : stk[i].handle = child
    /\ ~\E v \in visited : metadata(v).some /\ metadata(v).val = child

\* walkdir's check_loop: Ok unless the directory a link resolves to cannot be
\* opened or is the same file as a directory on the stack
check_loop(stk, child) ==
    /\ Readable(child)
    /\ ~\E i \in 1..Len(stk) : stk[i].handle = child

\* variant: follow_links(false), a link is yielded as it is
handle_entry_no_follow(stk, path, lexkind) ==
    IF lexkind = "dir"
    THEN [yield |-> "ok", dir |-> Some(metadata(path).val)]
    ELSE [yield |-> "ok", dir |-> None]

\* walkdir's handle_entry with follow_links: a link is replaced by what it
\* resolves to (an error when it resolves to nothing or closes a loop); a
\* directory is pushed
handle_entry(stk, path, lexkind) ==
    IF lexkind = "link"
    THEN LET m == metadata(path) IN
         IF ~m.some THEN [yield |-> "err", dir |-> None]
         ELSE IF Kind(m.val) = "dir"
              THEN IF check_loop(stk, m.val)
                   THEN [yield |-> "ok", dir |-> Some(m.val)]
                   ELSE [yield |-> "err", dir |-> None]
              ELSE [yield |-> "ok", dir |-> None]
    ELSE IF lexkind = "dir"
    THEN [yield |-> "ok", dir |-> Some(metadata(path).val)]
    ELSE [yield |-> "ok", dir |-> None]

Top == stack[Len(stack)]
Pop(stk) == SubSeq(stk, 1, Len(stk) - 1)
\* the top frame with its first name consumed
Advance(stk) == [stk EXCEPT ![Len(stk)].todo = Tail(@)]
NextPath == Append(Top.path, Head(Top.todo))
NextKind == Kind(Append(Top.handle, Head(Top.todo)))

OtherUnchanged == UNCHANGED <<fs, folder_path, cpath, cret, fsop, exists_ret>>

(***************************************************************************)
(* scan_music_folder: actions                                              *)
(***************************************************************************)
\* lines 30-41: the call, the two checks, the empty Vec
ScanStart ==
    /\ pc \in {"idle", "done"}
    /\ calls < MaxScans
    /\ calls' = calls + 1
    /\ prev' = IF pc = "done" THEN Summary(result) ELSE prev
    /\ LET chk == root_check(folder_path) IN
       IF chk.state = "err"
       THEN /\ pc' = "done"
            /\ result' = chk
            /\ UNCHANGED start
       ELSE /\ pc' = "walk"
            /\ result' = NoResult
            /\ start' = TRUE
    /\ stack' = <<>>
    /\ music_files' = <<>>
    /\ visited' = {}
    /\ OtherUnchanged

RootEntry == handle_entry(<<>>, folder_path, Kind(symlink_metadata(folder_path).val))
NextEntry == handle_entry(stack, NextPath, NextKind)

\* the first next(): the root entry
WalkRoot ==
    /\ pc = "walk" /\ start
    /\ start' = FALSE
    /\ \E h \in {RootEntry}, rev \in BOOLEAN :
         /\ stack' = IF h.dir.some THEN <<Frame(folder_path, h.dir.val, rev)>> ELSE <<>>
         /\ visited' = IF h.yield = "ok" THEN visited \cup {folder_path} ELSE visited
         /\ music_files' = IF h.yield = "ok"
                           THEN loop_body(folder_path, folder_path, music_files)
                           ELSE music_files
    /\ UNCHANGED <<pc, result, prev, calls>>
    /\ OtherUnchanged

\* next() yields Ok(entry) and the loop body runs on it
WalkEntry ==
    /\ pc = "walk" /\ ~start /\ stack # <<>>
    /\ ~Top.err /\ Top.todo # <<>>
    /\ \E h \in {NextEntry}, file_path \in {NextPath}, rev \in BOOLEAN :
         /\ h.yield = "ok"
         /\ h.dir.some => Len(stack) < MaxDepth
         /\ stack' = IF h.dir.some
                     THEN Append(Advance(stack), Frame(file_path, h.dir.val, rev))
                     ELSE Advance(stack)
         /\ visited' = visited \cup {file_path}
         /\ music_files' = loop_body(file_path, folder_path, music_files)
    /\ UNCHANGED <<pc, start, result, prev, calls>>
    /\ OtherUnchanged

\* variant: an Err item ends the call with a failure instead of being dropped
WalkErrorAborts ==
    /\ pc = "walk" /\ ~start /\ stack # <<>>
    /\ \/ Top.err
       \/ /\ ~Top.err /\ Top.todo # <<>>
          /\ NextEntry.yield = "err"
    /\ pc' = "done"
    /\ result' = Err("walk error: ", Top.path)
    /\ UNCHANGED <<start, stack, music_files, visited, prev, calls>>
    /\ OtherUnchanged

\* next() yields Err (a directory that cannot be listed, a link that resolves
\* to nothing or closes a loop) and filter_map(|e| e.ok()) drops it
WalkError ==
    /\ pc = "walk" /\ ~start /\ stack # <<>>
    /\ \/ /\ Top.err
          /\ stack' = [stack EXCEPT ![Len(stack)].err = FALSE]
       \/ /\ ~Top.err /\ Top.todo # <<>>
          /\ NextEntry.yield = "err"
          /\ stack' = Advance(stack)
    /\ UNCHANGED <<pc, start, music_files, visited, result, prev, calls>>
    /\ OtherUnchanged

\* the top directory's listing is exhausted
WalkPop ==
    /\ pc = "walk" /\ ~start /\ stack # <<>>
    /\ ~Top.err /\ Top.todo = <<>>
    /\ stack' = Pop(stack)
    /\ UNCHANGED <<pc, start, music_files, visited, result, prev, calls>>
    /\ OtherUnchanged

\* line 76: the iterator is exhausted
ScanReturn ==
    /\ pc = "walk" /\ ~start /\ stack = <<>>
    /\ pc' = "done"
    /\ result' = Ok(music_files)
    /\ UNCHANGED <<start, stack, music_files, visited, prev, calls>>
    /\ OtherUnchanged

NoPrev == [state |-> "none", files |-> {}, msg |-> "", path |-> <<>>]
NoOp == [op |-> "none", path |-> <<>>, kind |-> "none"]
NoRet == [called |-> FALSE, path |-> <<>>, val |-> FALSE]

ScanIdle ==
    /\ pc = "idle" /\ start = FALSE /\ stack = <<>> /\ music_files = <<>>
    /\ visited = {} /\ result = NoResult /\ prev = NoPrev /\ calls = 0

Init ==
    /\ fs \in FsConfigs
    /\ folder_path \in FolderPaths
    /\ ScanIdle
    /\ cpath = <<>> /\ cret = NoRet
    /\ fsop = NoOp /\ exists_ret = NoRet

Next == ScanStart \/ WalkRoot \/ WalkEntry \/ WalkError \/ WalkPop \/ ScanReturn

Spec == Init /\ [][Next]_vars

\* the loop runs to completion: each step of the call is taken when it can be
FairSpec == Spec /\ WF_vars(Next)

(***************************************************************************)
(* is_audio_file on its own: a path is drawn, the classifier is applied    *)
(***************************************************************************)
to_uppercase_char(c) ==
    IF \E i \in 1..Len(LOWER) : LOWER[i] = c
    THEN UPPER[CHOOSE i \in 1..Len(LOWER) : LOWER[i] = c]
    ELSE c

\* an extension as written by users: lower case, upper case, capitalised
CaseVariants(e) ==
    { e,
      [i \in 1..Len(e) |-> to_uppercase_char(e[i])],
      [i \in 1..Len(e) |-> IF i = 1 THEN to_uppercase_char(e[i]) ELSE e[i]] }

OtherExtensions ==
    { <<"t","x","t">>, <<"j","p","g">>, <<"m","p">>, <<"m","p","3","3">>,
      <<"m","p","4">>, <<"m","p","3",BAD>>, <<>> }

Stems == { <<>>, <<"s">>, <<"s", ".", "x">>, <<BAD>>, <<".">> }

ClassifyAlphabet == {"m", "p", "3", "M", ".", BAD}

RECURSIVE SeqsUpTo(_, _)
SeqsUpTo(S, n) ==
    IF n = 0 THEN {<<>>}
    ELSE LET shorter == SeqsUpTo(S, n - 1)
         IN shorter \cup { Append(q, c) : q \in shorter, c \in S }

ClassifyNames ==
    LET exts == UNION { CaseVariants(e) : e \in AUDIO_EXTENSIONS \cup OtherExtensions }
    IN { st \o <<".">> \o e : st \in Stems, e \in exts }
       \cup { st \o e : st \in Stems, e \in exts }
       \cup SeqsUpTo(ClassifyAlphabet, MaxNameLen)

ClassifyInputs ==
    { <<n>> : n \in ClassifyNames \ {<<>>} }
    \cup { <<RootDir, N_album, n>> : n \in ClassifyNames \ {<<>>} }
    \cup { <<>>, <<RootDir>>, <<N_album>>, <<N_album, <<".", ".">>>> }

Classify ==
    /\ ~cret.called
    /\ cret' = [called |-> TRUE, path |-> cpath, val |-> is_audio_file(cpath)]
    /\ UNCHANGED <<fs, folder_path, pc, start, stack, music_files, visited, result,
                   prev, calls, cpath, fsop, exists_ret>>

BaseFs == MkFs(NoNode, NoNode, NoNode, NoNode)

InitClassify ==
    /\ fs = BaseFs
    /\ folder_path = Abs(P_m)
    /\ ScanIdle
    /\ cpath \in ClassifyInputs /\ cret = NoRet
    /\ fsop = NoOp /\ exists_ret = NoRet

NextClassify == Classify

SpecClassify == InitClassify /\ [][NextClassify]_vars

(***************************************************************************)
(* file_exists, with the file system changing between calls                *)
(***************************************************************************)
\* variant: the last component is not followed (symlink_metadata)
file_exists_lstat(file_path) == symlink_metadata(file_path).some

\* lines 81-83
file_exists(file_path) == exists(file_path)

\* the paths entries are created at and removed from
MutPaths == {Abs(P_l), P_s}
ExistsPaths == MutPaths \cup {Abs(P_z), Abs(P_e)}

\* the slot a new entry at path would occupy
NewSlot(path) ==
    LET dir == metadata(SubSeq(path, 1, Len(path) - 1))
    IN IF dir.some /\ Kind(dir.val) = "dir" THEN Some(Append(dir.val, path[Len(path)]))
       ELSE None

FsUnchanged == UNCHANGED <<folder_path, pc, start, stack, music_files, visited, result,
                           prev, calls, cpath, cret>>

\* create a regular file, an empty directory or a symbolic link at path
Create(path, node) ==
    /\ ~symlink_metadata(path).some
    /\ NewSlot(path).some /\ NewSlot(path).val \in Slots
    /\ fs' = [fs EXCEPT ![NewSlot(path).val] = node]
    /\ fsop' = [op |-> "create", path |-> path, kind |-> node.kind]
    /\ exists_ret' = NoRet
    /\ FsUnchanged

CreateFile == \E path \in MutPaths : Create(path, FileNode)
CreateDir == \E path \in MutPaths : Create(path, DirNode(TRUE))
CreateLink == \E path \in MutPaths, t \in LinkTargets : Create(path, LinkNode(t))

\* unlink or rmdir the entry at path
Remove ==
    \E path \in MutPaths :
        LET at == symlink_metadata(path) IN
        /\ at.some /\ at.val \in Slots
        /\ Kind(at.val) = "dir" => Children(at.val) = {}
        /\ fs' = [fs EXCEPT ![at.val] = NoNode]
        /\ fsop' = [op |-> "remove", path |-> path, kind |-> Kind(at.val)]
        /\ exists_ret' = NoRet
        /\ FsUnchanged

FileExists ==
    \E path \in ExistsPaths :
        /\ exists_ret' = [called |-> TRUE, path |-> path, val |-> file_exists(path)]
        /\ UNCHANGED fs
        /\ UNCHANGED fsop
        /\ FsUnchanged

InitExists ==
    /\ fs \in {BaseFs, MkFs(NoNode, NoNode, LinkNode(Abs(P_z)), LinkNode(Abs(P_o)))}
    /\ folder_path = Abs(P_m)
    /\ ScanIdle
    /\ cpath = <<>> /\ cret = NoRet
    /\ fsop = NoOp /\ exists_ret = NoRet

NextExists == CreateFile \/ CreateDir \/ CreateLink \/ Remove \/ FileExists

SpecExists == InitExists /\ [][NextExists]_vars

(***************************************************************************)
(* Vocabulary of the properties                                            *)
(***************************************************************************)
Last(seq) == seq[Len(seq)]

\* c is the letter d or its capital
FoldEq(c, d) == c = d \/ \E i \in 1..Len(UPPER) : UPPER[i] = c /\ LOWER[i] = d

\* name is <non-empty stem> "." <an allow-listed extension in any letter case>
AudioNamed(name) ==
    \E e \in AUDIO_EXTENSIONS : \E k \in 2..Len(name) :
        /\ name[k] = "."
        /\ Len(name) - k = Len(e)
        /\ \A i \in 1..Len(e) : FoldEq(name[k + i], e[i])

IsText(name) == \A i \in 1..Len(name) : name[i] # BAD

IsPrefix(a, b) == Len(a) <= Len(b) /\ SubSeq(b, 1, Len(a)) = a
IsInfix(a, b) == \E i \in 0..(Len(b) - Len(a)) : SubSeq(b, i + 1, i + Len(a)) = a

\* the directory the scanned root is
RootHandle == metadata(folder_path).val
RootIsDir == metadata(folder_path).some /\ Kind(metadata(folder_path).val) = "dir"

\* what the entry named c of the directory at d resolves to, links followed
EntryTarget(d, c) == metadata(Abs(Append(d, c)))

\* the directories reachable from the root through readable directories,
\* links to directories followed
RECURSIVE ReachFrom(_)
ReachFrom(D) ==
    LET more == { EntryTarget(d, c).val :
                    <<d, c>> \in { x \in D \X Range(NAMES) :
                                     /\ Readable(x[1])
                                     /\ x[2] \in Children(x[1])
                                     /\ EntryTarget(x[1], x[2]).some
                                     /\ Kind(EntryTarget(x[1], x[2]).val) = "dir" } }
    IN IF more \subseteq D THEN D ELSE ReachFrom(D \cup more)
ReachDirs == ReachFrom({RootHandle})

\* the entries (directory, name) of the reachable, readable directories
ReachEntries ==
    { x \in ReachDirs \X Range(NAMES) : Readable(x[1]) /\ x[2] \in Children(x[1]) }

\* the visited paths a record's path text comes from
VisitedOf(r) == { v \in visited : path_to_string_lossy(v) = r.path }

Records == Range(music_files)

(***************************************************************************)
(* Properties of scan_music_folder, checked under Spec                     *)
(***************************************************************************)

\* C1: the root is validated before any traversal.  When folder_path resolves
\* to nothing (links followed, as Path::exists does) the call fails with the
\* does-not-exist message followed by folder_path; otherwise, when it resolves
\* to something that is not a directory, it fails with the not-a-directory
\* message followed by folder_path.  In both cases no entry was visited and no
\* record was collected.
C1_RootValidatedFirst ==
    pc = "done" =>
        /\ ~metadata(folder_path).some =>
              /\ result.state = "err"
              /\ result.msg = "Folder does not exist: "
              /\ result.path = folder_path
              /\ result.files = <<>> /\ visited = {} /\ music_files = <<>>
        /\ (metadata(folder_path).some /\ Kind(metadata(folder_path).val) # "dir") =>
              /\ result.state = "err"
              /\ result.msg = "Path is not a directory: "
              /\ result.path = folder_path
              /\ result.files = <<>> /\ visited = {} /\ music_files = <<>>

\* a call on the regular file /m/s.mp3 has returned the not-a-directory failure
C1_Witness ==
    /\ pc = "done"
    /\ folder_path = Abs(P_s)
    /\ result = Err("Path is not a directory: ", Abs(P_s))

\* the plain (link-free) descendants of the root that are regular files with a
\* text, allow-listed name and lie beneath readable directories only
PlainAudioFiles ==
    { s \in Slots :
        /\ Len(s) > Len(RootHandle) /\ IsPrefix(RootHandle, s)
        /\ fs[s].kind = "file"
        /\ AudioNamed(Last(s)) /\ IsText(Last(s))
        /\ \A n \in Len(RootHandle)..(Len(s) - 1) :
              Kind(SubSeq(s, 1, n)) = "dir" /\ Readable(SubSeq(s, 1, n)) }

\* C2: only the two root checks are fatal.  Whenever folder_path names an
\* existing directory the call returns success, whatever entries of the tree
\* fail (unreadable directory, broken or looping link, non-text name); an empty
\* directory gives the empty sequence; and every matching file that does not
\* lie beneath an unreadable directory is reported under its path from the root.
C2_OnlyRootChecksFatal ==
    (pc = "done" /\ RootIsDir) =>
        /\ result.state = "ok"
        /\ Children(RootHandle) = {} => result.files = <<>>
        /\ \A s \in PlainAudioFiles :
              \E r \in Range(result.files) :
                  r.path = path_to_string_lossy(
                              folder_path \o SubSeq(s, Len(RootHandle) + 1, Len(s)))

\* a scan of /m has succeeded and reported s.mp3 although the sibling
\* directory /m/m is unreadable and the link /m/l is broken
C2_Witness ==
    /\ pc = "done" /\ result.state = "ok"
    /\ folder_path = Abs(P_m)
    /\ fs[P_mm] = DirNode(FALSE)
    /\ fs[P_l] = LinkNode(Abs(P_z))
    /\ \E r \in Range(result.files) : r.name = N_song

\* C4: every record comes from a visited entry that is a regular file once
\* links are resolved and whose name the classifier accepts.  No record has a
\* name without an allow-listed extension (n.txt never appears) and no record
\* comes from a directory, whatever its name (the directory a.mp3).
C4_RecordsAreAudioFiles ==
    \A r \in Records \cup Range(result.files) :
        /\ AudioNamed(r.name)
        /\ r.name # N_notes
        /\ VisitedOf(r) # {}
        /\ \A v \in VisitedOf(r) :
              /\ metadata(v).some
              /\ Kind(metadata(v).val) = "file"
              /\ AudioNamed(Last(v))

\* a finished scan visited the directory a.mp3 and the file n.txt and
\* reported the file inside a.mp3 only
C4_Witness ==
    /\ pc = "done" /\ result.state = "ok"
    /\ folder_path = Abs(P_m)
    /\ Abs(P_a) \in visited /\ Abs(P_n) \in visited
    /\ \E r \in Range(result.files) : r.name = N_track
    /\ ~\E r \in Range(result.files) : r.name \in {N_album, N_notes}

(***************************************************************************)
(* Properties of is_audio_file, checked under SpecClassify                 *)
(***************************************************************************)

\* C3: is_audio_file answers true exactly for the paths whose last component
\* is a non-empty stem, a dot and one of the eleven allow-listed extensions
\* written in any letter case; every other path (no extension, a non-text
\* extension, another extension) gets false.
C3_ClassifierExact ==
    cret.called =>
        cret.val = (cret.path # <<>> /\ AudioNamed(Last(cret.path)))

\* the classifier has accepted a name with the mixed-case extension Mp3
C3_Witness ==
    /\ cret.called /\ cret.val
    /\ cret.path = << <<"s", ".", "M", "p", "3">> >>

(***************************************************************************)
(* Completeness, folder, idempotence, fields, termination (Spec, FairSpec)  *)
(***************************************************************************)
\* the regular files the reachable entries resolve to
ReachFiles ==
    { EntryTarget(x[1], x[2]).val :
        x \in { y \in ReachEntries : /\ EntryTarget(y[1], y[2]).some
                                     /\ Kind(EntryTarget(y[1], y[2]).val) = "file" } }

\* every reachable directory can be listed and every reachable name is text
AllReadableText ==
    /\ \A d \in ReachDirs : Readable(d)
    /\ \A x \in ReachEntries : IsText(x[2])
    /\ \A f \in ReachFiles : IsText(Last(f))

RelParent(v) == SubSeq(v, Len(folder_path) + 1, Len(v) - 1)

AllRecords == Records \cup Range(result.files)

\* C6 as claimed: folder is absent exactly when the parent is the root, is
\* otherwise the parent relative to the root, is never empty and never begins
\* with or contains the root path.
C6_Original ==
    \A r \in AllRecords : \A v \in VisitedOf(r) :
        /\ ~r.folder.some <=> RelParent(v) = <<>>
        /\ r.folder.some =>
              /\ r.folder.val = RelParent(v)
              /\ r.folder.val # <<>>
              /\ ~IsInfix(folder_path, r.folder.val)

\* C6 (amended): folder is absent exactly when the parent is the root or the
\* relative parent has a component that is not text; otherwise it is the
\* parent relative to the root, never empty, and root/folder/name is the
\* visited path.  Under an absolute root it never begins with or contains the
\* root's components; under a relative root a subdirectory named like the root
\* gives a folder that begins with the root's name.
C6_FolderRelativeToRoot ==
    \A r \in AllRecords : \A v \in VisitedOf(r) :
        /\ IsPrefix(folder_path, v)
        /\ ~r.folder.some <=>
              (RelParent(v) = <<>> \/ \E i \in 1..Len(RelParent(v)) : ~IsText(RelParent(v)[i]))
        /\ r.folder.some =>
              /\ r.folder.val = RelParent(v)
              /\ r.folder.val # <<>>
              /\ folder_path \o r.folder.val \o <<r.name>> = v
              /\ folder_path[1] = RootDir => ~IsInfix(folder_path, r.folder.val)

\* a finished scan of /m holds s.mp3 without folder, T.OGG with folder
\* m/a.mp3 and T.OGG reached through the link with folder l/a.mp3
C6_Witness ==
    /\ pc = "done" /\ result.state = "ok"
    /\ folder_path = Abs(P_m)
    /\ \E r \in Range(result.files) : r.name = N_song /\ r.folder = None
    /\ \E r \in Range(result.files) : r.name = N_track /\ r.folder = Some(<<N_m, N_album>>)
    /\ \E r \in Range(result.files) : r.name = N_track /\ r.folder = Some(<<N_l, N_album>>)

\* C7: a scan changes nothing in the file system, and a second call on the
\* same root returns the same failure or the same set of records as the
\* first, whatever order the directory listings come in.
C7_ScanIdempotent ==
    [][ /\ fs' = fs
        /\ (pc' = "done" /\ calls' >= 2) => Summary(result') = prev' ]_vars

\* a second scan has returned at least three records
C7_Witness ==
    /\ pc = "done" /\ calls = 2
    /\ result.state = "ok" /\ prev.state = "ok"
    /\ Cardinality(prev.files) >= 3
    /\ Cardinality(Range(result.files)) >= 3

\* C9: each record's fields come from the path as visited.  path is the
\* supplied root path extended by the relative parent and the file name (the
\* link's path for a file reached through a link); name is its last
\* component; extension is what follows the name's last dot, letter case
\* kept, no dot in it.  An entry whose base name is not text has no record and
\* the scan still succeeds.
C9_FieldsFromVisitedPath ==
    /\ \A r \in AllRecords :
          /\ VisitedOf(r) # {}
          /\ \A v \in VisitedOf(r) :
                /\ IsPrefix(folder_path, v) /\ Len(v) > Len(folder_path)
                /\ r.path = path_to_string_lossy(folder_path \o RelParent(v) \o <<r.name>>)
                /\ r.name = Last(v) /\ IsText(r.name)
                /\ \E k \in 2..Len(r.name) :
                      /\ r.name[k] = "."
                      /\ r.extension = SubSeq(r.name, k + 1, Len(r.name))
                      /\ \A i \in 1..Len(r.extension) : r.extension[i] # "."
                /\ r.folder.some => r.path = folder_path \o r.folder.val \o <<r.name>>
    /\ \A v \in visited :
          ~IsText(Last(v)) => ~\E r \in AllRecords : r.path = path_to_string_lossy(v)
    /\ (pc = "done" /\ RootIsDir) => result.state = "ok"

\* a finished scan of /m visited the non-text name in /m/m without making a
\* record of it and reported T.OGG under the link's path with extension OGG
C9_Witness ==
    /\ pc = "done" /\ result.state = "ok"
    /\ folder_path = Abs(P_m)
    /\ Abs(P_X) \in visited
    /\ \E r \in Range(result.files) :
          /\ r.path = Abs(<<N_m, N_l, N_album, N_track>>)
          /\ r.extension = <<"O", "G", "G">>

\* no directory entered through a link is a directory already on the stack
NoLoopFollowed ==
    \A j \in 2..Len(stack) : \A i \in 1..(j - 1) :
        Kind(symlink_metadata(stack[j].path).val) = "link" =>
            stack[j].handle # stack[i].handle

\* C10: every scan that enters the walk returns, with success, also when
\* links form a cycle: a link that leads back to a directory being walked is
\* never followed (it is an error entry, skipped like any other), so the walk
\* cannot go round the cycle.
C10_ScanTerminates ==
    /\ []NoLoopFollowed
    /\ (pc = "walk") ~> (pc = "done" /\ result.state = "ok")

\* a scan of /m in which /m/l points back at /m has returned: the file
\* s.mp3 was visited, the looping link was never handed to the loop body
C10_Witness ==
    /\ pc = "done" /\ result.state = "ok"
    /\ folder_path = Abs(P_m)
    /\ fs[P_l] = LinkNode(Abs(P_m))
    /\ Abs(P_s) \in visited
    /\ Abs(P_l) \notin visited

(***************************************************************************)
(* Properties of file_exists, checked under SpecExists                     *)
(***************************************************************************)

\* C8 as claimed: file_exists is true exactly when an entry of any kind is
\* present at the path, a symbolic link whose target is missing included.
C8_Original ==
    exists_ret.called =>
        exists_ret.val = symlink_metadata(exists_ret.path).some

\* C8 (amended): file_exists never fails and is true exactly when the path,
\* symbolic links followed, leads to an entry: true only if an entry is
\* present at the path, true for every entry that is not a link, and for a
\* link true exactly when its target exists (false for a dangling or looping
\* link).  Right after a regular file or a directory is created at the path it
\* is true, right after the entry is removed it is false.
C8_ExistsFollowsLinks ==
    exists_ret.called =>
        LET p == exists_ret.path
            at == symlink_metadata(p)
        IN /\ exists_ret.val \in BOOLEAN
           /\ exists_ret.val => at.some
           /\ (at.some /\ Kind(at.val) # "link") => exists_ret.val
           /\ (at.some /\ Kind(at.val) = "link") =>
                 exists_ret.val = exists(fs[at.val].target)
           /\ (fsop.path = p /\ fsop.op = "create" /\ fsop.kind \in {"file", "dir"}) =>
                 exists_ret.val
           /\ (fsop.path = p /\ fsop.op = "remove") => ~exists_ret.val

\* file_exists has answered false for a path at which a link to a missing
\* target had just been created
C8_Witness ==
    /\ exists_ret.called /\ ~exists_ret.val
    /\ fsop = [op |-> "create", path |-> exists_ret.path, kind |-> "link"]
    /\ symlink_metadata(exists_ret.path).some
    /\ fs[symlink_metadata(exists_ret.path).val].target = Abs(P_z)

====
